---- MODULE Spec2Model ----
(***************************************************************************)
(* Model of the Bluetooth LE wrappers of zephyr-rust-wrappers:             *)
(*   - bluetooth/api.rs   the single-use Api capability and bt_enable      *)
(*   - bluetooth/uuid.rs  BtUuid expansion / reduction and compare_uuids   *)
(*   - bluetooth/data.rs  BtData encoding (raw, sys_ref) and decoding      *)
(*                        (from_raw, data_parser_callback, parse_bt_data)  *)
(*   - lib.rs             ErrorNumber / ZephyrError classification         *)
(* Bytes are naturals 0..255, byte arrays are sequences (index 1 is the    *)
(* Rust index 0), strings are sequences of Unicode code points.            *)
(***************************************************************************)
EXTENDS Integers, Sequences, FiniteSets, TLC

VARIABLES
    \* ---- bluetooth/api.rs
    API_CONTAINER,      \* static mut API_CONTAINER.api : "Some" | "None"
    api_handles,        \* number of Api values returned to callers so far
    enable_calls,       \* number of Api::enable calls made so far
    bt_enable_calls,    \* number of times the host's bt_enable was invoked
    enable_result,      \* outcome of the last Api::enable call
    \* ---- bluetooth/uuid.rs
    uuid_op,            \* last uuid operation applied
    uuid_n,             \* the short value handed to BtUuid::from
    bt_uuid,            \* the BtUuid (16 stored bytes) built last
    uuid_short,         \* the BtUuid16 / BtUuid32 produced by the reduction
    uuid_cmp,           \* operands and result of the last compare_uuids
    \* ---- lib.rs
    errno_in,           \* the i32 status handed to the error constructor
    zephyr_error,       \* the ZephyrError built from it
    \* ---- bluetooth/data.rs
    bt_data_in,         \* the BtData value being encoded
    raw_bt_data,        \* RawBtData returned by BtData::raw
    z_bt_data,          \* ZBtData (bt_data) view returned by sys_ref
    parser_data,        \* DataParser.data : Vec<BtData>
    net_buf,            \* bytes the host parser has not consumed yet
    parse_state,        \* position of the parse
    deliveries,         \* the calls of data_parser_callback so far: record and return
    \* ---- bluetooth/api.rs, bluetooth/gatt.rs : the wrappers of the host calls
    host_op,            \* the wrapper called last
    call_arg,           \* the name handed to set_name (empty for the other wrappers)
    host_calls,         \* the host entry points that call invoked, in order
    host_status,        \* the status the host returned to it
    call_result,        \* what the wrapper returned
    \* ---- bluetooth/gatt.rs : one GATT service
    gatt_decl,          \* the attributes as the caller declared them, in order
    gatt_service,       \* the GattService; attrs is the memory at its attrs pointer
    register_calls,     \* Api::register_service calls made with this service
    host_db,            \* what the host was handed for registration, in order
    host_last_handle,   \* the last attribute handle the host has assigned
    gatt_access,        \* the last attribute access of the host and what it invoked
    \* ---- bluetooth/le.rs : the parameter conversions
    le_op,              \* the conversion applied last
    le_in,              \* the AdvertisementParameters / ScanParameters converted
    le_out,             \* the bt_le_adv_param / bt_le_scan_param it produced
    \* ---- bluetooth/api.rs : start_advertising
    adv_in,             \* the record lists handed to start_advertising
    \* ---- bluetooth/gatt.rs : the built-in read handlers
    read_op,            \* the built-in handler the host invoked last
    read_args,          \* the arguments the handler received
    read_calls,         \* the host routines the handler invoked, with their arguments
    read_host_ret,      \* what the host routine returned to the handler
    read_ret,           \* what the handler returned
    \* ---- sensor.rs : trigger_set
    sensor_op,          \* the sensor function called last
    sensor_device,      \* the device it was called with
    sensor_calls,       \* the driver functions that call invoked
    sensor_status,      \* the status the driver returned to it
    sensor_result,      \* what the function returned
    \* ---- bluetooth/api.rs : two threads in Api::enable
    thr_pc,             \* where each thread is in Api::enable
    thr_api,            \* each thread's local `api` (what it read from the placeholder)
    thr_result          \* what Api::enable returned to each thread

api_vars  == <<API_CONTAINER, api_handles, enable_calls, bt_enable_calls, enable_result>>
uuid_vars == <<uuid_op, uuid_n, bt_uuid, uuid_short, uuid_cmp>>
err_vars  == <<errno_in, zephyr_error>>
data_vars ==
    <<bt_data_in, raw_bt_data, z_bt_data, parser_data, net_buf, parse_state, deliveries>>
host_vars == <<host_op, call_arg, host_calls, host_status, call_result>>
gatt_vars ==
    <<gatt_decl, gatt_service, register_calls, host_db, host_last_handle, gatt_access>>
le_vars == <<le_op, le_in, le_out>>
adv_vars == <<adv_in>>
read_vars == <<read_op, read_args, read_calls, read_host_ret, read_ret>>
sensor_vars == <<sensor_op, sensor_device, sensor_calls, sensor_status, sensor_result>>
thread_vars == <<thr_pc, thr_api, thr_result>>
rest_vars == <<le_vars, adv_vars, read_vars, sensor_vars, thread_vars>>
vars == <<api_vars, uuid_vars, err_vars, data_vars, host_vars, gatt_vars, rest_vars>>

(***************************************************************************)
(* Bounds of the model                                                     *)
(***************************************************************************)
MaxCalls == 3        \* Api::enable calls in one run
MaxErrno == 130      \* host status codes -MaxErrno..MaxErrno (plus the i32 extremes)
MaxUuids == 2        \* UUIDs in one UUID-list record
MaxNameLen == 2      \* code points in a sampled name
LongNameLen == 256   \* length of the one long sampled name (data_len is a u8)
MaxRecs == 2         \* records in a sampled advertising stream
MaxAttrs == 3        \* attributes in a sampled GATT service
MaxRegs == 2         \* Api::register_service calls in one run

(***************************************************************************)
(* Integer helpers                                                         *)
(***************************************************************************)
I32Max == 2147483647 + 0     \* i32::MAX
I32Min == (0 - I32Max) - 1    \* i32::MIN

\* A u32 is kept as its two 16-bit halves, so that the whole 32-bit range is
\* represented exactly: U32(hi, lo) is the number hi * 2^16 + lo.
U32(hi, lo) == [hi |-> hi, lo |-> lo]

\* `n as u32` for a u16 n (zero extension) and `x as u16` for a u32 x (truncation)
U32_from_u16(n) == U32(0, n)
U32_as_u16(x) == x.lo

\* u32::to_be_bytes / u16::to_be_bytes
U32BeBytes(x) == <<x.hi \div 256, x.hi % 256, x.lo \div 256, x.lo % 256>>
U16BeBytes(n) == <<n \div 256, n % 256>>

Bytes == 0..255

(***************************************************************************)
(* bluetooth/uuid.rs                                                       *)
(***************************************************************************)
BT_UUID_TYPE_16 == 0
BT_UUID_TYPE_32 == 1
BT_UUID_TYPE_128 == 2

BT_BASE_D2 == 0
BT_BASE_D3 == 4096     \* 0x1000
\* 0x80 0x00 0x00 0x80 0x5F 0x9B 0x34 0xFB
BT_BASE_D4 == <<128, 0, 0, 128, 95, 155, 52, 251>>

BT_BASE_UUID ==
    <<0, 0, 0, 0, 0, 0, 16, 0,
      128, 0, 0, 128, 95, 155, 52, 251>>

\* uuid::Uuid::from_fields(d1, d2, d3, d4): the integer fields are stored
\* big-endian, followed by the eight bytes of d4.
Uuid_from_fields(d1, d2, d3, d4) == U32BeBytes(d1) \o U16BeBytes(d2) \o U16BeBytes(d3) \o d4

\* first component of uuid::Uuid::to_fields_le(): bytes 0..3 read as a
\* little-endian u32 (byte 0 is the least significant).
Uuid_to_fields_le_d1(bytes) ==
    U32(bytes[3] + 256 * bytes[4], bytes[1] + 256 * bytes[2])

\* BtUuid::from_bytes
BtUuid_from_bytes(bytes) == bytes

\* A plausible slip in from_uuid: the bytes are kept in the standard order
BtUuid_from_uuid_no_reverse(uuid) == BtUuid_from_bytes(uuid)

\* BtUuid::from_uuid: the 16 bytes reversed
BtUuid_from_uuid(uuid) == BtUuid_from_bytes([i \in 1..16 |-> uuid[17 - i]])

\* BtUuid::service_uuid_32
BtUuid_service_uuid_32(service_id) ==
    U32BeBytes(service_id) \o U16BeBytes(BT_BASE_D2) \o U16BeBytes(BT_BASE_D3) \o BT_BASE_D4

\* A plausible slip in From<u32>: the number is stored least significant byte
\* first (the order to_fields_le reads it back in)
BtUuid_from_u32_le(number) ==
    <<number.lo % 256, number.lo \div 256, number.hi % 256, number.hi \div 256>>
    \o U16BeBytes(BT_BASE_D2) \o U16BeBytes(BT_BASE_D3) \o BT_BASE_D4

\* impl From<u32> for BtUuid
BtUuid_from_u32(number) == Uuid_from_fields(number, BT_BASE_D2, BT_BASE_D3, BT_BASE_D4)

\* impl From<u16> for BtUuid  (number as u32 is a zero extension)
BtUuid_from_u16(number) == Uuid_from_fields(U32_from_u16(number), BT_BASE_D2, BT_BASE_D3, BT_BASE_D4)

\* impl From<BtUuid> for BtUuid32
BtUuid32_from_BtUuid(u) == [type_ |-> BT_UUID_TYPE_32, val |-> Uuid_to_fields_le_d1(u)]

\* impl From<BtUuid> for BtUuid16  (d1 as u16 keeps the low 16 bits)
BtUuid16_from_BtUuid(u) == [type_ |-> BT_UUID_TYPE_16, val |-> U32_as_u16(Uuid_to_fields_le_d1(u))]

\* impl From<BtUuid> for BtUuid128 / BtUuid::to_uuid128
BtUuid128_from_BtUuid(u) == [type_ |-> BT_UUID_TYPE_128, val |-> u]

\* uuid16(d1)
uuid16(d1) == [type_ |-> BT_UUID_TYPE_16, val |-> d1]

\* BtUuid32 literal
uuid32(d1) == [type_ |-> BT_UUID_TYPE_32, val |-> d1]

\* A plausible slip in compare_uuids: the width check between the two short
\* forms is missing, and both operands are read as 16-bit values.
compare_uuids_no_width_check(one, other) ==
    LET low16(u) == IF u.type_ = BT_UUID_TYPE_32 THEN U32_as_u16(u.val) ELSE u.val IN
    IF one.type_ # BT_UUID_TYPE_128 /\ other.type_ # BT_UUID_TYPE_128
    THEN low16(one) = low16(other)
    ELSE one.type_ = other.type_ /\ one.val = other.val

\* compare_uuids(one, other); both type tags are among the three widths
compare_uuids(one, other) ==
    IF one.type_ # other.type_
    THEN FALSE
    ELSE CASE one.type_ = BT_UUID_TYPE_128 -> one.val = other.val
           [] one.type_ = BT_UUID_TYPE_32  -> one.val = other.val
           [] one.type_ = BT_UUID_TYPE_16  -> one.val = other.val

\* ---- sampled inputs
\* 0x0000 0x0001 0x00FF 0x0100 0x1234 0x180D 0x2800 0xABAB 0xFFFF
U16Samples == {0, 1, 255, 256, 4660, 6157, 10240, 43947, 65535}
\* the same zero-extended, and 0x00010000 0x12345678 0x12344321 0xABCDCDAB
\* 0x80000000 0xFFFFFFFF
U32Samples ==
    {U32_from_u16(n) : n \in U16Samples}
    \cup {U32(1, 0), U32(4660, 22136), U32(4660, 17185), U32(43981, 52651),
          U32(32768, 0), U32(65535, 65535)}

StdUuidSamples ==
    { [i \in 1..16 |-> i - 1],
      [i \in 1..16 |-> 170],
      BT_BASE_UUID,
      Uuid_from_fields(U32(0, 6157), BT_BASE_D2, BT_BASE_D3, BT_BASE_D4) }

\* BtUuid values applications hold: built by from_uuid, from_bytes or From<u32>
BtUuidSamples ==
    {BtUuid_from_uuid(u) : u \in StdUuidSamples} \cup {BtUuid_from_u32(U32(0, 6157)), [i \in 1..16 |-> 170]}

RawUuids(t) ==
    CASE t = BT_UUID_TYPE_16  -> {uuid16(n) : n \in U16Samples}
      [] t = BT_UUID_TYPE_32  -> {uuid32(n) : n \in U32Samples}
      [] t = BT_UUID_TYPE_128 -> {BtUuid128_from_BtUuid(u) : u \in BtUuidSamples}

UuidTypes == {BT_UUID_TYPE_16, BT_UUID_TYPE_32, BT_UUID_TYPE_128}

NoUuid == <<>>
NoShort == [type_ |-> 255, val |-> 0]
NoCmp == [one |-> NoShort, other |-> NoShort, result |-> FALSE]

UuidInit ==
    /\ uuid_op = "none"
    /\ uuid_n = 0
    /\ bt_uuid = NoUuid
    /\ uuid_short = NoShort
    /\ uuid_cmp = NoCmp

\* BtUuid::from(n: u16)
FromU16(n) ==
    /\ uuid_op' = "from_u16"
    /\ uuid_n' = n
    /\ bt_uuid' = BtUuid_from_u16(n)
    /\ uuid_short' = NoShort
    /\ uuid_cmp' = NoCmp

\* BtUuid::from(n: u32)
FromU32(n) ==
    /\ uuid_op' = "from_u32"
    /\ uuid_n' = n
    /\ bt_uuid' = BtUuid_from_u32(n)
    /\ uuid_short' = NoShort
    /\ uuid_cmp' = NoCmp

\* BtUuid::service_uuid_32(service_id)
ServiceUuid32(service_id) ==
    /\ uuid_op' = "service_uuid_32"
    /\ uuid_n' = service_id
    /\ bt_uuid' = BtUuid_service_uuid_32(service_id)
    /\ uuid_short' = NoShort
    /\ uuid_cmp' = NoCmp

\* BtUuid16::from(bt_uuid) applied to the BtUuid built last
IntoBtUuid16 ==
    /\ uuid_op \in {"from_u16", "from_u32"}
    /\ uuid_short' = BtUuid16_from_BtUuid(bt_uuid)
    /\ uuid_op' = IF uuid_op = "from_u16" THEN "u16_to_16" ELSE "u32_to_16"
    /\ UNCHANGED <<uuid_n, bt_uuid, uuid_cmp>>

\* BtUuid32::from(bt_uuid) applied to the BtUuid built last
IntoBtUuid32 ==
    /\ uuid_op \in {"from_u16", "from_u32"}
    /\ uuid_short' = BtUuid32_from_BtUuid(bt_uuid)
    /\ uuid_op' = IF uuid_op = "from_u16" THEN "u16_to_32" ELSE "u32_to_32"
    /\ UNCHANGED <<uuid_n, bt_uuid, uuid_cmp>>

\* compare_uuids(&one, &other)
CompareUuids(one, other) ==
    /\ uuid_cmp' = [one |-> one, other |-> other, result |-> compare_uuids(one, other)]
    /\ uuid_op' = "compare"
    /\ uuid_n' = 0
    /\ bt_uuid' = NoUuid
    /\ uuid_short' = NoShort

UuidFromU16 == \E n \in U16Samples : FromU16(n) /\ UNCHANGED <<api_vars, err_vars, data_vars, host_vars, gatt_vars, rest_vars>>
UuidFromU32 == \E n \in U32Samples : FromU32(n) /\ UNCHANGED <<api_vars, err_vars, data_vars, host_vars, gatt_vars, rest_vars>>
UuidServiceUuid32 ==
    \E n \in U32Samples : ServiceUuid32(n) /\ UNCHANGED <<api_vars, err_vars, data_vars, host_vars, gatt_vars, rest_vars>>
UuidInto16 == IntoBtUuid16 /\ UNCHANGED <<api_vars, err_vars, data_vars, host_vars, gatt_vars, rest_vars>>
UuidInto32 == IntoBtUuid32 /\ UNCHANGED <<api_vars, err_vars, data_vars, host_vars, gatt_vars, rest_vars>>
UuidCompare ==
    \E t1 \in UuidTypes, t2 \in UuidTypes :
        \E one \in RawUuids(t1), other \in RawUuids(t2) :
            CompareUuids(one, other) /\ UNCHANGED <<api_vars, err_vars, data_vars, host_vars, gatt_vars, rest_vars>>

NextUuid ==
    UuidFromU16 \/ UuidFromU32 \/ UuidServiceUuid32 \/ UuidInto16 \/ UuidInto32 \/ UuidCompare

(***************************************************************************)
(* lib.rs : ErrorNumber and ZephyrError                                    *)
(***************************************************************************)
Permission     == [kind |-> "Permission", code |-> 1]
NotImplemented == [kind |-> "NotImplemented", code |-> 88]
NotConnected   == [kind |-> "NotConnected", code |-> 128]
Other(n)       == [kind |-> "Other", code |-> n]
\* the conversion did not return: i32::abs overflowed with overflow checks on
AbsOverflowPanic == [kind |-> "panic", code |-> 0]

\* i32::abs. i32::MIN has no positive counterpart: a build with overflow
\* checks panics, a build without them returns i32::MIN unchanged.
I32Abs(x, overflow_checks) ==
    IF x = I32Min
    THEN (IF overflow_checks THEN AbsOverflowPanic ELSE Other(I32Min))
    ELSE Other(IF x < 0 THEN 0 - x ELSE x)

\* impl From<i32> for ErrorNumber
ErrorNumber_from(errno, overflow_checks) ==
    CASE errno = 1                  -> Permission
      [] errno \in {88, 0 - 88}     -> NotImplemented
      [] errno \in {128, 0 - 128}   -> NotConnected
      [] OTHER                      -> I32Abs(errno, overflow_checks)

\* ZephyrError::new_with_context
ZephyrError_new_with_context(errno, context) == [errno |-> errno, context |-> context]

\* ZephyrError::from_errno
ZephyrError_from_errno(errno, overflow_checks) ==
    [errno |-> ErrorNumber_from(errno, overflow_checks), context |-> "none"]

\* ZephyrError::from_errno_with_context
ZephyrError_from_errno_with_context(errno, context, overflow_checks) ==
    [errno |-> ErrorNumber_from(errno, overflow_checks), context |-> context]

\* bluetooth/mod.rs : CONTEXT.name()
CONTEXT == "bluetooth"

\* status codes a host call may return
ErrnoSamples == ((0 - MaxErrno)..MaxErrno) \cup {I32Min, I32Min + 1, I32Max}

NoError == [errno |-> [kind |-> "none", code |-> 0], context |-> "none"]

ErrInit ==
    /\ errno_in = 0
    /\ zephyr_error = NoError

\* ZephyrError::from_errno(errno)
FromErrno(errno, overflow_checks) ==
    /\ errno_in' = errno
    /\ zephyr_error' = ZephyrError_from_errno(errno, overflow_checks)

\* ZephyrError::from_errno_with_context(errno, &CONTEXT)
FromErrnoWithContext(errno, overflow_checks) ==
    /\ errno_in' = errno
    /\ zephyr_error' = ZephyrError_from_errno_with_context(errno, CONTEXT, overflow_checks)

ErrFromErrno ==
    \E errno \in ErrnoSamples, oc \in BOOLEAN :
        FromErrno(errno, oc) /\ UNCHANGED <<api_vars, uuid_vars, data_vars, host_vars, gatt_vars, rest_vars>>
ErrFromErrnoWithContext ==
    \E errno \in ErrnoSamples, oc \in BOOLEAN :
        FromErrnoWithContext(errno, oc) /\ UNCHANGED <<api_vars, uuid_vars, data_vars, host_vars, gatt_vars, rest_vars>>

NextErr == ErrFromErrno \/ ErrFromErrnoWithContext

(***************************************************************************)
(* bluetooth/api.rs : the single-use Api capability                        *)
(***************************************************************************)
\* A plausible slip in take_api: the option is read without being replaced
take_api_without_replace(api) == [taken |-> api, left |-> api]

\* ApiContainer::take_api: replace(&mut self.api, None); the caller unwraps
take_api(api) == [taken |-> api, left |-> "None"]

NoResult == [tag |-> "none", error |-> NoError]

ApiInit ==
    /\ API_CONTAINER = "Some"
    /\ api_handles = 0
    /\ enable_calls = 0
    /\ bt_enable_calls = 0
    /\ enable_result = NoResult

\* Api::enable(), the host's bt_enable returning `status`
Api_enable(status, overflow_checks) ==
    /\ enable_calls < MaxCalls
    /\ enable_calls' = enable_calls + 1
    /\ LET t == take_api(API_CONTAINER) IN
       /\ API_CONTAINER' = t.left
       /\ IF t.taken = "None"
          THEN \* api.unwrap() panics before the host is reached
               /\ enable_result' = [tag |-> "panic", error |-> NoError]
               /\ UNCHANGED <<api_handles, bt_enable_calls>>
          ELSE /\ bt_enable_calls' = bt_enable_calls + 1
               /\ IF status # 0
                  THEN /\ enable_result' =
                            [tag |-> "Err",
                             error |-> ZephyrError_from_errno_with_context(
                                           status, CONTEXT, overflow_checks)]
                       /\ UNCHANGED api_handles
                  ELSE /\ enable_result' = [tag |-> "Ok", error |-> NoError]
                       /\ api_handles' = api_handles + 1

ApiEnable ==
    /\ enable_calls < MaxCalls
    /\ \E status \in ErrnoSamples, oc \in BOOLEAN :
           Api_enable(status, oc) /\ UNCHANGED <<uuid_vars, err_vars, data_vars, host_vars, gatt_vars, rest_vars>>

NextApi == ApiEnable

(***************************************************************************)
(* bluetooth/data.rs : BtData, RawBtData, the decoder                      *)
(***************************************************************************)
BT_DATA_FLAGS == 1
BT_DATA_UUID128_ALL == 7

\* enum BtData, one record shape for all variants
Flags(b)              == [tag |-> "Flags", flags |-> b, uuids |-> <<>>, name |-> <<>>, type_number |-> 0]
UuidIncomplete(l)     == [tag |-> "UuidIncomplete", flags |-> 0, uuids |-> l, name |-> <<>>, type_number |-> 0]
UuidAll(l)            == [tag |-> "UuidAll", flags |-> 0, uuids |-> l, name |-> <<>>, type_number |-> 0]
CompleteName(s)       == [tag |-> "CompleteName", flags |-> 0, uuids |-> <<>>, name |-> s, type_number |-> 0]
CompleteNameStatic(s) == [tag |-> "CompleteNameStatic", flags |-> 0, uuids |-> <<>>, name |-> s, type_number |-> 0]
ShortenedName(s)      == [tag |-> "ShortenedName", flags |-> 0, uuids |-> <<>>, name |-> s, type_number |-> 0]
UnknownType(t)        == [tag |-> "UnknownType", flags |-> 0, uuids |-> <<>>, name |-> <<>>, type_number |-> t]
NoData                == [tag |-> "none", flags |-> 0, uuids |-> <<>>, name |-> <<>>, type_number |-> 0]

\* the members of a sequence of sequences, concatenated in order
RECURSIVE Concat(_)
Concat(ss) ==
    IF Len(ss) = 0 THEN <<>>
    ELSE IF Len(ss) = 1 THEN ss[1]
    ELSE LET mid == Len(ss) \div 2 IN
         Concat(SubSeq(ss, 1, mid)) \o Concat(SubSeq(ss, mid + 1, Len(ss)))

\* char::encode_utf8 for one code point
Utf8Char(cp) ==
    IF cp < 128 THEN <<cp>>
    ELSE IF cp < 2048 THEN <<192 + (cp \div 64), 128 + (cp % 64)>>
    ELSE IF cp < 65536 THEN <<224 + (cp \div 4096), 128 + ((cp \div 64) % 64), 128 + (cp % 64)>>
    ELSE <<240 + (cp \div 262144), 128 + ((cp \div 4096) % 64),
           128 + ((cp \div 64) % 64), 128 + (cp % 64)>>

\* str::as_bytes: the UTF-8 bytes of the string
str_as_bytes(s) == Concat([i \in 1..Len(s) |-> Utf8Char(s[i])])

IsCont(b) == b \in 128..191
ReplacementChar == 65533    \* U+FFFD

\* range of a valid second byte after the lead byte b0 of a 3- or 4-byte sequence
SecondRange(b0) ==
    CASE b0 = 224 -> 160..191
      [] b0 = 237 -> 128..159
      [] b0 = 240 -> 144..191
      [] b0 = 244 -> 128..143
      [] OTHER    -> 128..191

\* the first code point of the non-empty byte sequence b and the bytes it uses;
\* an invalid or truncated sequence gives U+FFFD for its maximal valid prefix
Utf8Next(b) ==
    LET b0 == b[1] n == Len(b) IN
    IF b0 < 128 THEN [cp |-> b0, used |-> 1]
    ELSE IF b0 \in 194..223 THEN
        IF n >= 2 /\ IsCont(b[2])
        THEN [cp |-> (b0 - 192) * 64 + (b[2] - 128), used |-> 2]
        ELSE [cp |-> ReplacementChar, used |-> 1]
    ELSE IF b0 \in 224..239 THEN
        IF n < 2 \/ b[2] \notin SecondRange(b0) THEN [cp |-> ReplacementChar, used |-> 1]
        ELSE IF n < 3 \/ ~IsCont(b[3]) THEN [cp |-> ReplacementChar, used |-> 2]
        ELSE [cp |-> (b0 - 224) * 4096 + (b[2] - 128) * 64 + (b[3] - 128), used |-> 3]
    ELSE IF b0 \in 240..244 THEN
        IF n < 2 \/ b[2] \notin SecondRange(b0) THEN [cp |-> ReplacementChar, used |-> 1]
        ELSE IF n < 3 \/ ~IsCont(b[3]) THEN [cp |-> ReplacementChar, used |-> 2]
        ELSE IF n < 4 \/ ~IsCont(b[4]) THEN [cp |-> ReplacementChar, used |-> 3]
        ELSE [cp |-> (b0 - 240) * 262144 + (b[2] - 128) * 4096
                        + (b[3] - 128) * 64 + (b[4] - 128), used |-> 4]
    ELSE [cp |-> ReplacementChar, used |-> 1]

\* String::from_utf8_lossy(slice).to_string()
RECURSIVE String_from_utf8_lossy(_)
String_from_utf8_lossy(b) ==
    IF b = <<>> THEN <<>>
    ELSE LET d == Utf8Next(b) IN
         <<d.cp>> \o String_from_utf8_lossy(SubSeq(b, d.used + 1, Len(b)))

\* A plausible slip in type_number: the codes of the two UUID lists are swapped
type_number_lists_swapped(d) ==
    CASE d.tag = "Flags"                                  -> BT_DATA_FLAGS
      [] d.tag = "UuidAll"                                -> 6
      [] d.tag \in {"CompleteName", "CompleteNameStatic"} -> 9
      [] d.tag = "UnknownType"                            -> d.type_number
      [] d.tag = "UuidIncomplete"                         -> BT_DATA_UUID128_ALL
      [] d.tag = "ShortenedName"                          -> 8

\* BtData::type_number
type_number(d) ==
    CASE d.tag = "Flags"                                  -> BT_DATA_FLAGS
      [] d.tag = "UuidAll"                                -> BT_DATA_UUID128_ALL
      [] d.tag \in {"CompleteName", "CompleteNameStatic"} -> 9
      [] d.tag = "UnknownType"                            -> d.type_number
      [] d.tag = "UuidIncomplete"                         -> 6
      [] d.tag = "ShortenedName"                          -> 8

\* BtData::data
data(d) ==
    CASE d.tag = "Flags"              -> <<d.flags>>
      [] d.tag = "UuidAll"            -> Concat(d.uuids)
      [] d.tag = "CompleteName"       -> str_as_bytes(d.name)
      [] d.tag = "CompleteNameStatic" -> str_as_bytes(d.name)
      [] d.tag = "UnknownType"        -> <<>>
      [] d.tag = "UuidIncomplete"     -> Concat(d.uuids)
      [] d.tag = "ShortenedName"      -> str_as_bytes(d.name)

\* BtData::raw
raw(d) == [type_ |-> type_number(d), data |-> data(d)]

\* A plausible slip in sys_ref: the length counts the type byte too, as the
\* length byte of a record on the air does
sys_ref_len_counts_type(r) ==
    [type_ |-> r.type_, data_len |-> (Len(r.data) + 1) % 256, data |-> r.data]

\* RawBtData::sys_ref: data_len is `len() as u8`; `data` stands for the memory
\* readable at the data pointer (here: exactly the bytes of the Vec)
sys_ref(r) == [type_ |-> r.type_, data_len |-> Len(r.data) % 256, data |-> r.data]

\* slice::from_raw_parts(data.data, data.data_len as usize)
slice_from_raw_parts(d) == SubSeq(d.data, 1, d.data_len)

\* slice.chunks(16): all chunks have 16 bytes except possibly the last
chunks(sl, n) ==
    [i \in 1..((Len(sl) + n - 1) \div n) |->
        SubSeq(sl, (i - 1) * n + 1, IF i * n < Len(sl) THEN i * n ELSE Len(sl))]

\* outcome of BtData::from_raw
Some(d)      == [status |-> "Some", data |-> d]
FromRawPanic == [status |-> "panic", data |-> NoData]   \* Result::unwrap on Err
FromRawFault == [status |-> "fault", data |-> NoData]   \* invalid read faulted
Fault == 0 - 1

\* the UUID-list arms of from_raw: Uuid::from_slice(chunk) is Err unless the
\* chunk has 16 bytes, and the unwrap then panics
from_raw_uuids(d, variant) ==
    LET cs == chunks(slice_from_raw_parts(d), 16) IN
    IF \E i \in 1..Len(cs) : Len(cs[i]) # 16
    THEN FromRawPanic
    ELSE LET uuids == [i \in 1..Len(cs) |-> BtUuid_from_uuid(cs[i])] IN
         Some(IF variant = "UuidAll" THEN UuidAll(uuids) ELSE UuidIncomplete(uuids))

\* the Flags arm of from_raw: `*data.data` reads one byte whatever data_len is.
\* With no readable byte at the pointer the read is invalid: it faults or
\* yields whatever byte `junk` lies there.
from_raw_flags(d, junk) ==
    IF Len(d.data) >= 1 THEN Some(Flags(d.data[1]))
    ELSE IF junk = Fault THEN FromRawFault
    ELSE Some(Flags(junk))

\* A plausible slip in from_raw: the Flags arm is missing (as the 0x09 arm is)
from_raw_without_flags_arm(d, junk) ==
    CASE d.type_ = BT_DATA_UUID128_ALL -> from_raw_uuids(d, "UuidAll")
      [] d.type_ = 6                   -> from_raw_uuids(d, "UuidIncomplete")
      [] d.type_ = 8 -> Some(ShortenedName(String_from_utf8_lossy(slice_from_raw_parts(d))))
      [] OTHER                         -> Some(UnknownType(d.type_))

\* BtData::from_raw
from_raw(d, junk) ==
    CASE d.type_ = BT_DATA_UUID128_ALL -> from_raw_uuids(d, "UuidAll")
      [] d.type_ = BT_DATA_FLAGS       -> from_raw_flags(d, junk)
      [] d.type_ = 6                   -> from_raw_uuids(d, "UuidIncomplete")
      [] d.type_ = 8 -> Some(ShortenedName(String_from_utf8_lossy(slice_from_raw_parts(d))))
      [] OTHER                         -> Some(UnknownType(d.type_))

\* A plausible slip in data_parser_callback: the decoded record is not pushed
data_parser_callback_without_push(d, pdata, junk) ==
    LET bt_data == from_raw(d, junk) IN
    IF bt_data.status = "Some"
    THEN [data |-> pdata, continue |-> TRUE, status |-> "ok"]
    ELSE [data |-> pdata, continue |-> FALSE, status |-> bt_data.status]

\* data_parser_callback: pushes the decoded record and returns true.
\* Gives the parser's data afterwards, the returned flag and how the call ended.
data_parser_callback(d, pdata, junk) ==
    LET bt_data == from_raw(d, junk) IN
    IF bt_data.status = "Some"
    THEN [data |-> Append(pdata, bt_data.data), continue |-> TRUE, status |-> "ok"]
    ELSE [data |-> pdata, continue |-> FALSE, status |-> bt_data.status]

\* ---- sampled inputs
RECURSIVE SeqsUpTo(_, _)
SeqsUpTo(S, n) ==
    IF n = 0 THEN {<<>>}
    ELSE LET P == SeqsUpTo(S, n - 1) IN P \cup {Append(q, x) : q \in P, x \in S}

\* 'a' 'b' U+00E9 U+20AC
NameChars == {97, 98, 233, 8364}
NameSamples ==
    SeqsUpTo(NameChars, MaxNameLen) \cup {<<97, 98, 99>>, [i \in 1..LongNameLen |-> 97]}
UuidListSamples == SeqsUpTo(BtUuidSamples, MaxUuids)

BtDataSamples ==
    {Flags(b) : b \in Bytes}
    \cup {UuidAll(l) : l \in UuidListSamples}
    \cup {UuidIncomplete(l) : l \in UuidListSamples}
    \cup {CompleteName(n) : n \in NameSamples}
    \cup {CompleteNameStatic(n) : n \in NameSamples}
    \cup {ShortenedName(n) : n \in NameSamples}
    \cup {UnknownType(t) : t \in Bytes}

\* one record of an advertising stream as the host parser reads it:
\* a length byte counting the type byte and the payload, the type, the payload
WireRecord(t, payload) == <<Len(payload) + 1, t>> \o payload
WireTypes == {BT_DATA_FLAGS, 6, BT_DATA_UUID128_ALL, 8, 9, 255}
WirePayloads == {<<>>, <<97, 98, 99>>, [i \in 1..16 |-> i - 1]}
WireRecords == {WireRecord(t, pl) : t \in WireTypes, pl \in WirePayloads}
\* nothing, or a record whose length byte promises more than the buffer holds
WireTails == {<<>>, <<5, 9, 97>>}

RECURSIVE WireStreams(_)
WireStreams(n) ==
    IF n = 0 THEN {<<>>}
    ELSE LET P == WireStreams(n - 1) IN P \cup {r \o q : r \in WireRecords, q \in P}

StreamSamples == {q \o t : q \in WireStreams(MaxRecs), t \in WireTails}

\* bytes an invalid read may find, or a fault
JunkSamples == {Fault, 0, 255}

NoRaw == [type_ |-> 0, data |-> <<>>]
NoZBtData == [type_ |-> 0, data_len |-> 0, data |-> <<>>]

DataInit ==
    /\ bt_data_in = NoData
    /\ raw_bt_data = NoRaw
    /\ z_bt_data = NoZBtData
    /\ parser_data = <<>>
    /\ net_buf = <<>>
    /\ parse_state = "idle"
    /\ deliveries = <<>>

\* nothing has been encoded or parsed yet: the codec keeps no state between
\* calls, so each behaviour follows one value or one buffer from start to end
DataReady == parse_state = "idle"

\* one call of data_parser_callback: the record it was handed and what it
\* returned ("true" / "false"), or how it ended without returning
Delivery(d, r) ==
    [data |-> d,
     ret |-> IF r.status # "ok" THEN r.status ELSE IF r.continue THEN "true" ELSE "false"]

\* d.raw()
BtData_raw(d) ==
    /\ DataReady
    /\ bt_data_in' = d
    /\ raw_bt_data' = raw(d)
    /\ z_bt_data' = NoZBtData
    /\ parser_data' = <<>>
    /\ net_buf' = <<>>
    /\ parse_state' = "raw"
    /\ deliveries' = <<>>

\* raw.sys_ref()
RawBtData_sys_ref ==
    /\ parse_state = "raw"
    /\ z_bt_data' = sys_ref(raw_bt_data)
    /\ parse_state' = "sys_ref"
    /\ UNCHANGED <<bt_data_in, raw_bt_data, parser_data, net_buf, deliveries>>

\* data_parser_callback(&mut bt_data, &mut parser) on the encoded record,
\* the parser's data being empty
DecodeEncoded(junk) ==
    /\ parse_state = "sys_ref"
    /\ LET r == data_parser_callback(z_bt_data, <<>>, junk) IN
       /\ parser_data' = r.data
       /\ parse_state' = IF r.status = "ok" THEN "decoded" ELSE r.status
       /\ deliveries' = Append(deliveries, Delivery(z_bt_data, r))
    /\ UNCHANGED <<bt_data_in, raw_bt_data, z_bt_data, net_buf>>

\* buf.parse_bt_data() up to the call of the host's bt_data_parse
parse_bt_data(buf) ==
    /\ DataReady
    /\ bt_data_in' = NoData
    /\ raw_bt_data' = NoRaw
    /\ z_bt_data' = NoZBtData
    /\ parser_data' = <<>>
    /\ net_buf' = buf
    /\ parse_state' = "parsing"
    /\ deliveries' = <<>>

\* One turn of the loop of the host's bt_data_parse, called by
\* DataParser::parse: while more than one byte is left, pull the length byte
\* (0 ends the scan, more than what is left ends it too), pull the type byte,
\* hand the record to data_parser_callback, and skip the payload if the
\* callback returned true. When the loop ends parse_bt_data returns parser.data.
bt_data_parse_step(junk) ==
    /\ parse_state = "parsing"
    /\ UNCHANGED <<bt_data_in, raw_bt_data>>
    /\ IF Len(net_buf) <= 1
       THEN /\ parse_state' = "done"
            /\ UNCHANGED <<z_bt_data, parser_data, net_buf, deliveries>>
       ELSE LET len  == net_buf[1]
                rest == Tail(net_buf)
            IN
            IF len = 0 \/ len > Len(rest)
            THEN /\ parse_state' = "done"
                 /\ net_buf' = rest
                 /\ UNCHANGED <<z_bt_data, parser_data, deliveries>>
            ELSE LET d == [type_ |-> rest[1], data_len |-> len - 1, data |-> Tail(rest)]
                     r == data_parser_callback(d, parser_data, junk)
                 IN
                 /\ z_bt_data' = d
                 /\ parser_data' = r.data
                 /\ deliveries' = Append(deliveries, Delivery(d, r))
                 /\ IF r.status # "ok"
                    THEN parse_state' = r.status /\ net_buf' = Tail(rest)
                    ELSE IF r.continue
                    THEN parse_state' = "parsing" /\ net_buf' = SubSeq(rest, len + 1, Len(rest))
                    ELSE parse_state' = "done" /\ net_buf' = Tail(rest)

DataRaw ==
    /\ DataReady
    /\ \E d \in BtDataSamples : BtData_raw(d) /\ UNCHANGED <<api_vars, uuid_vars, err_vars, host_vars, gatt_vars, rest_vars>>
DataSysRef == RawBtData_sys_ref /\ UNCHANGED <<api_vars, uuid_vars, err_vars, host_vars, gatt_vars, rest_vars>>
DataDecodeEncoded ==
    /\ parse_state = "sys_ref"
    /\ \E junk \in JunkSamples : DecodeEncoded(junk) /\ UNCHANGED <<api_vars, uuid_vars, err_vars, host_vars, gatt_vars, rest_vars>>
DataParse ==
    /\ DataReady
    /\ \E buf \in StreamSamples : parse_bt_data(buf) /\ UNCHANGED <<api_vars, uuid_vars, err_vars, host_vars, gatt_vars, rest_vars>>
DataParseStep ==
    /\ parse_state = "parsing"
    /\ \E junk \in JunkSamples : bt_data_parse_step(junk) /\ UNCHANGED <<api_vars, uuid_vars, err_vars, host_vars, gatt_vars, rest_vars>>

NextData == DataRaw \/ DataSysRef \/ DataDecodeEncoded \/ DataParse \/ DataParseStep

(***************************************************************************)
(* bluetooth/api.rs, bluetooth/gatt.rs : the wrappers of the host calls    *)
(***************************************************************************)
\* Option<&[BtData]>
NoneList == [some |-> FALSE, list |-> <<>>]
SomeList(l) == [some |-> TRUE, list |-> l]

\* one invocation of a host entry point and what it was handed: the C string
\* of bt_set_name, the record arrays and their lengths of bt_le_adv_start
\* (a null pointer for an absent array)
HostCallOf(entry) ==
    [entry |-> entry, name |-> <<>>,
     ad_null |-> TRUE, ad |-> <<>>, ad_len |-> 0,
     sd_null |-> TRUE, sd |-> <<>>, sd_len |-> 0]

\* results of a wrapper
ResultOk == [tag |-> "Ok", error |-> NoError]
ResultErr(e) == [tag |-> "Err", error |-> e]
ResultPanic == [tag |-> "panic", error |-> NoError]

\* Err(ZephyrError::from_errno_with_context(errno, &CONTEXT)); the conversion
\* of the status panics where i32::abs overflows with overflow checks on
Err_from_errno(errno, overflow_checks) ==
    LET e == ZephyrError_from_errno_with_context(errno, CONTEXT, overflow_checks) IN
    IF e.errno = AbsOverflowPanic THEN ResultPanic ELSE ResultErr(e)

\* Api::register_service(service), the host returning `status`
register_service(status, overflow_checks) ==
    [calls |-> <<HostCallOf("bt_gatt_service_register")>>,
     result |-> IF status = 0 THEN ResultOk ELSE Err_from_errno(status, overflow_checks)]

\* enable(callback)
enable(status, overflow_checks) ==
    [calls |-> <<HostCallOf("bt_enable")>>,
     result |-> IF status # 0 THEN Err_from_errno(status, overflow_checks) ELSE ResultOk]

\* A plausible slip in CString::new's use: the name is passed on unchecked
CString_new_unchecked(name) == [status |-> "Ok", bytes |-> Append(str_as_bytes(name), 0)]

\* CString::new(name): an error if the bytes of the name hold a NUL, else the
\* bytes followed by the terminating NUL
CString_new(name) ==
    LET b == str_as_bytes(name) IN
    IF \E i \in 1..Len(b) : b[i] = 0
    THEN [status |-> "Err", bytes |-> <<>>]
    ELSE [status |-> "Ok", bytes |-> Append(b, 0)]

\* set_name(name)
set_name(name, status, overflow_checks) ==
    LET c_str == CString_new(name) IN
    IF c_str.status = "Err"
    THEN [calls |-> <<>>,
          result |-> ResultErr(ZephyrError_new_with_context(NotImplemented, CONTEXT))]
    ELSE [calls |-> <<[HostCallOf("bt_set_name") EXCEPT !.name = c_str.bytes]>>,
          result |-> IF status # 0 THEN Err_from_errno(status, overflow_checks) ELSE ResultOk]

\* A plausible slip in RawAdvertisementHandle::new: the scan response array is
\* built from the advertising data
RawAdvertisementHandle_new_sd_from_ad(advertisement_data, scan_response_data) ==
    LET zraw(o) == [i \in 1..Len(o.list) |-> sys_ref(raw(o.list[i]))] IN
    [HostCallOf("bt_le_adv_start") EXCEPT
        !.ad_null = ~advertisement_data.some,
        !.ad = zraw(advertisement_data),
        !.ad_len = Len(zraw(advertisement_data)),
        !.sd_null = ~scan_response_data.some,
        !.sd = zraw(advertisement_data),
        !.sd_len = Len(zraw(advertisement_data))]

\* RawAdvertisementHandle::new: each record list becomes the array of the
\* sys_ref of the raw of its members, an absent list a null pointer and length 0
RawAdvertisementHandle_new(advertisement_data, scan_response_data) ==
    LET zraw(o) == [i \in 1..Len(o.list) |-> sys_ref(raw(o.list[i]))] IN
    [HostCallOf("bt_le_adv_start") EXCEPT
        !.ad_null = ~advertisement_data.some,
        !.ad = zraw(advertisement_data),
        !.ad_len = Len(zraw(advertisement_data)),
        !.sd_null = ~scan_response_data.some,
        !.sd = zraw(scan_response_data),
        !.sd_len = Len(zraw(scan_response_data))]

\* start_advertising(parameters, advertisement_data, scan_response_data)
start_advertising(advertisement_data, scan_response_data, status, overflow_checks) ==
    [calls |-> <<RawAdvertisementHandle_new(advertisement_data, scan_response_data)>>,
     result |-> IF status = 0 THEN ResultOk ELSE Err_from_errno(status, overflow_checks)]

\* start_scanning(scan_parameters, callback)
start_scanning(status, overflow_checks) ==
    [calls |-> <<HostCallOf("bt_le_scan_start")>>,
     result |-> IF status = 0 THEN ResultOk ELSE Err_from_errno(status, overflow_checks)]

\* gatt::notify(connection, params)
notify(status, overflow_checks) ==
    [calls |-> <<HostCallOf("bt_gatt_notify_cb")>>,
     result |-> IF status = 0 THEN ResultOk ELSE Err_from_errno(status, overflow_checks)]

\* gatt::discover(connection, parameters)
discover(status, overflow_checks) ==
    [calls |-> <<HostCallOf("bt_gatt_discover")>>,
     result |-> IF status = 0 THEN ResultOk ELSE Err_from_errno(status, overflow_checks)]

\* ---- sampled inputs
\* "", "abc", U+00E9, and names with a NUL: "a\0b", "\0"
SetNameSamples == {<<>>, <<97, 98, 99>>, <<233>>, <<97, 0, 98>>, <<0>>}
\* Option<&[BtData]> arguments of start_advertising
\* the last one encodes to more than the 31 bytes of a legacy advertisement
RecordListSamples ==
    {NoneList, SomeList(<<>>), SomeList(<<Flags(6), CompleteName(<<97, 98, 99>>)>>),
     SomeList(<<CompleteName([i \in 1..32 |-> 97]), UnknownType(255), Flags(6)>>)}

NoAdvIn == [advertisement_data |-> NoneList, scan_response_data |-> NoneList]

HostInit ==
    /\ adv_in = NoAdvIn
    /\ host_op = "none"
    /\ call_arg = <<>>
    /\ host_calls = <<>>
    /\ host_status = 0
    /\ call_result = NoResult

\* the wrapper `op` was called and returned (or panicked) with r; the host,
\* if the call reached it, returned `status`
WrapperCall(op, arg, r, status) ==
    /\ host_op' = op
    /\ call_arg' = arg
    /\ host_calls' = r.calls
    /\ host_status' = IF r.calls = <<>> THEN 0 ELSE status
    /\ call_result' = r.result

\* nothing has been called or built yet: a wrapper keeps no state between
\* calls, so each behaviour follows one call, or one GATT service
HostReady == host_op = "none" /\ gatt_decl = <<>>

\* only i32::abs of i32::MIN depends on the build's overflow checks
OverflowChecks(status) == IF status = I32Min THEN BOOLEAN ELSE {TRUE}

HostEnable ==
    /\ HostReady
    /\ \E status \in ErrnoSamples : \E oc \in OverflowChecks(status) :
           /\ WrapperCall("enable", <<>>, enable(status, oc), status)
           /\ UNCHANGED <<api_vars, uuid_vars, err_vars, data_vars, gatt_vars, rest_vars>>
HostSetName ==
    /\ HostReady
    /\ \E name \in SetNameSamples, status \in ErrnoSamples : \E oc \in OverflowChecks(status) :
           /\ WrapperCall("set_name", name, set_name(name, status, oc), status)
           /\ UNCHANGED <<api_vars, uuid_vars, err_vars, data_vars, gatt_vars, rest_vars>>
HostStartAdvertising ==
    /\ HostReady
    /\ \E ad \in RecordListSamples, sd \in RecordListSamples :
           \E status \in ErrnoSamples : \E oc \in OverflowChecks(status) :
               /\ WrapperCall("start_advertising", <<>>, start_advertising(ad, sd, status, oc), status)
               /\ adv_in' = [advertisement_data |-> ad, scan_response_data |-> sd]
               /\ UNCHANGED <<api_vars, uuid_vars, err_vars, data_vars, gatt_vars,
                              le_vars, read_vars, sensor_vars, thread_vars>>
HostStartScanning ==
    /\ HostReady
    /\ \E status \in ErrnoSamples : \E oc \in OverflowChecks(status) :
           /\ WrapperCall("start_scanning", <<>>, start_scanning(status, oc), status)
           /\ UNCHANGED <<api_vars, uuid_vars, err_vars, data_vars, gatt_vars, rest_vars>>
HostNotify ==
    /\ HostReady
    /\ \E status \in ErrnoSamples : \E oc \in OverflowChecks(status) :
           /\ WrapperCall("notify", <<>>, notify(status, oc), status)
           /\ UNCHANGED <<api_vars, uuid_vars, err_vars, data_vars, gatt_vars, rest_vars>>
HostDiscover ==
    /\ HostReady
    /\ \E status \in ErrnoSamples : \E oc \in OverflowChecks(status) :
           /\ WrapperCall("discover", <<>>, discover(status, oc), status)
           /\ UNCHANGED <<api_vars, uuid_vars, err_vars, data_vars, gatt_vars, rest_vars>>

(***************************************************************************)
(* bluetooth/gatt.rs : attributes, a service, its registration and the     *)
(* host's attribute accesses                                               *)
(***************************************************************************)
\* Option<AttributeReadCallback> / Option<AttributeWriteCallback>: None, or the
\* union with its `rust` (typed) or its `c` (native) member set to a function
None == [shape |-> "none", fn |-> "null"]
RustCallback(f) == [shape |-> "rust", fn |-> f]
CCallback(f) == [shape |-> "c", fn |-> f]

\* the handler functions of the application and the signature each is
\* compiled with: the member of a union can only be set to a function of the
\* member's type
RustHandlers == {"rust_read", "rust_write"}
CHandlers == {"c_read", "c_write"}
Signature(f) == IF f \in RustHandlers THEN "rust" ELSE "c"

\* A plausible slip in the slot's match: only the native member is passed on
callback_slot_c_only(cb) == IF cb.shape = "c" THEN cb.fn ELSE "null"

\* the host-visible slot of a declared callback (the match in
\* GattAttribute::new and with_raw): None stays null, Some(cb) becomes the
\* function pointer the union holds, whichever member was set
callback_slot(cb) == IF cb = None THEN "null" ELSE cb.fn

\* GattAttribute::new(uuid, read, write, user_data, handle, perm)
GattAttribute_new(uuid, read, write, handle, perm) ==
    [uuid |-> uuid, read |-> callback_slot(read), write |-> callback_slot(write),
     handle |-> handle, perm |-> perm]

\* GattAttribute::with_raw(uuid, read, write, user_data, handle, perm)
GattAttribute_with_raw(uuid, read, write, handle, perm) ==
    [uuid |-> uuid, read |-> callback_slot(read), write |-> callback_slot(write),
     handle |-> handle, perm |-> perm]

\* the attribute a declaration builds
Attribute(d) ==
    IF d.ctor = "new"
    THEN GattAttribute_new(d.uuid, d.read, d.write, d.handle, d.perm)
    ELSE GattAttribute_with_raw(d.uuid, d.read, d.write, d.handle, d.perm)

\* A plausible slip in GattService::new: the count misses the last attribute
GattService_new_count_short(attrs) ==
    [attrs |-> attrs, attr_count |-> Len(attrs) - 1, node_next |-> "null"]

\* GattService::new(attrs): the pointer to the caller's slice and its length
GattService_new(attrs) == [attrs |-> attrs, attr_count |-> Len(attrs), node_next |-> "null"]

NoService == [attrs |-> <<>>, attr_count |-> 0, node_next |-> "null"]

\* The host's bt_gatt_service_register, called by Api::register_service, when
\* it accepts the service: it walks the attr_count attributes in order; an
\* attribute with handle 0 gets the next handle, a preset handle above the
\* last one is kept and moves the counter. Gives the attributes afterwards
\* and the last handle.
RECURSIVE HostAssignHandles(_, _, _, _)
HostAssignHandles(attrs, count, i, handle) ==
    IF i > count \/ i > Len(attrs) THEN [attrs |-> attrs, handle |-> handle]
    ELSE IF attrs[i].handle = 0
    THEN HostAssignHandles([attrs EXCEPT ![i].handle = handle + 1], count, i + 1, handle + 1)
    ELSE IF attrs[i].handle > handle
    THEN HostAssignHandles(attrs, count, i + 1, attrs[i].handle)
    ELSE HostAssignHandles(attrs, count, i + 1, handle)

\* ---- sampled inputs
\* handler declarations of an attribute: read and write are independent
HandlerSamples ==
    <<[read |-> None, write |-> None],
      [read |-> RustCallback("rust_read"), write |-> None],
      [read |-> CCallback("c_read"), write |-> RustCallback("rust_write")],
      [read |-> None, write |-> CCallback("c_write")],
      [read |-> RustCallback("rust_read"), write |-> CCallback("c_write")]>>

\* the i-th attribute declaration of the sampled table number p
AttrDecl(p, i, handle) ==
    LET h == HandlerSamples[((i + p) % Len(HandlerSamples)) + 1] IN
    [ctor |-> IF i % 2 = 1 THEN "new" ELSE "with_raw",
     uuid |-> 10240 + i, read |-> h.read, write |-> h.write, handle |-> handle, perm |-> 1]

\* attribute tables of 1..MaxAttrs attributes: all handles 0 (auto-assign) with
\* different handler declarations, and one with preset, equal handles
DeclSamples ==
    {[i \in 1..n |-> AttrDecl(p, i, 0)] : p \in {0, 2, 4}, n \in 1..MaxAttrs}
    \cup {[i \in 1..n |-> AttrDecl(0, i, 5)] : n \in 1..MaxAttrs}

\* statuses of bt_gatt_service_register: 0, -EINVAL, -ENOMEM, -EALREADY, and
\* one status of each class of the error taxonomy, of either sign
RegisterStatusSamples ==
    {0, 0 - 22, 0 - 12, 0 - 120, 1, 0 - 1, 88, 0 - 88, 128, 0 - 128, I32Min, I32Max}

NoAccess == [attr |-> 0, kind |-> "none", invoked |-> <<>>]

GattInit ==
    /\ gatt_decl = <<>>
    /\ gatt_service = NoService
    /\ register_calls = 0
    /\ host_db = <<>>
    /\ host_last_handle = 0
    /\ gatt_access = NoAccess

\* the application builds its attributes and GattService::new(&mut attrs)
NewService(decl) ==
    /\ gatt_decl = <<>>
    /\ host_op = "none"
    /\ gatt_decl' = decl
    /\ gatt_service' = GattService_new([i \in 1..Len(decl) |-> Attribute(decl[i])])
    /\ UNCHANGED <<register_calls, host_db, host_last_handle, gatt_access>>

\* Api::register_service(&mut service): the host is handed the service and
\* returns `status`; when it accepts (0) it has assigned the handles
Api_register_service(status, overflow_checks) ==
    /\ gatt_decl # <<>>
    /\ register_calls < MaxRegs
    /\ register_calls' = register_calls + 1
    /\ WrapperCall("register_service", <<>>, register_service(status, overflow_checks), status)
    /\ host_db' = Append(host_db, [attrs |-> gatt_service.attrs,
                                   attr_count |-> gatt_service.attr_count])
    /\ IF status = 0
       THEN LET a == HostAssignHandles(gatt_service.attrs, gatt_service.attr_count,
                                       1, host_last_handle) IN
            /\ gatt_service' = [gatt_service EXCEPT !.attrs = a.attrs]
            /\ host_last_handle' = a.handle
       ELSE UNCHANGED <<gatt_service, host_last_handle>>
    /\ gatt_access' = NoAccess
    /\ UNCHANGED gatt_decl

\* the host has accepted the service
Registered == host_op = "register_service" /\ host_status = 0 /\ register_calls > 0

\* The host accesses attribute i for a read or a write: a null slot is
\* refused by the host itself; otherwise the host calls the function in the
\* slot with its native arguments, and the function sees them through its
\* own signature: as typed views (&mut BtConnection, &GattAttribute) if it is
\* a `rust` handler, as the native pointers if it is a `c` handler.
HostAccess(i, kind) ==
    /\ Registered
    /\ i \in 1..gatt_service.attr_count
    /\ LET slot == IF kind = "read" THEN gatt_service.attrs[i].read
                   ELSE gatt_service.attrs[i].write
       IN
       gatt_access' =
           [attr |-> i, kind |-> kind,
            invoked |-> IF slot = "null" THEN <<>>
                        ELSE <<[fn |-> slot,
                                view |-> IF Signature(slot) = "rust" THEN "typed"
                                         ELSE "native"]>>]
    /\ UNCHANGED <<gatt_decl, gatt_service, register_calls, host_db, host_last_handle>>

GattNewService ==
    /\ gatt_decl = <<>>
    /\ host_op = "none"
    /\ \E decl \in DeclSamples :
           NewService(decl) /\ UNCHANGED <<api_vars, uuid_vars, err_vars, data_vars, host_vars, rest_vars>>
GattRegisterService ==
    /\ gatt_decl # <<>>
    /\ register_calls < MaxRegs
    /\ \E status \in RegisterStatusSamples : \E oc \in OverflowChecks(status) :
           Api_register_service(status, oc) /\ UNCHANGED <<api_vars, uuid_vars, err_vars, data_vars, rest_vars>>
GattHostAccess ==
    /\ Registered
    /\ \E i \in 1..MaxAttrs, kind \in {"read", "write"} :
           HostAccess(i, kind) /\ UNCHANGED <<api_vars, uuid_vars, err_vars, data_vars, host_vars, rest_vars>>

NextHost ==
    \/ HostEnable \/ HostSetName \/ HostStartAdvertising \/ HostStartScanning
    \/ HostNotify \/ HostDiscover
    \/ GattNewService \/ GattRegisterService \/ GattHostAccess

(***************************************************************************)
(* bluetooth/le.rs : AdvertisementParameters and ScanParameters to the     *)
(* host's structures                                                       *)
(***************************************************************************)
\* a bitflags value (AdvertisementOptions, ScanOptions, ScanType) holds its bits
Bitflags(b) == [bits |-> b]
bits(flags) == flags.bits

\* Option<LeAddress>
NoPeer == [some |-> FALSE, address |-> <<>>, addr_type |-> 0]
SomePeer(addr_type, address) == [some |-> TRUE, address |-> address, addr_type |-> addr_type]
\* *const bt_addr_le_t
NullPtr == [null |-> TRUE, pointee |-> NoPeer]
RefTo(p) == [null |-> FALSE, pointee |-> p]

\* transmute(peer.as_ref()) : Option<&LeAddress> has the layout of a pointer,
\* None being the null pointer
transmute_option_ref(peer) == IF peer.some THEN RefTo(peer) ELSE NullPtr

AdvertisementParameters_new(id, sid, secondary_max_skip, options, interval_min, interval_max, peer) ==
    [id |-> id, sid |-> sid, secondary_max_skip |-> secondary_max_skip,
     options |-> options, interval_min |-> interval_min,
     interval_max |-> interval_max, peer |-> peer]

bt_le_adv_param_from(other) ==
    [id |-> other.id,
     sid |-> other.sid,
     secondary_max_skip |-> other.secondary_max_skip,
     options |-> bits(other.options),
     interval_min |-> other.interval_min,
     interval_max |-> other.interval_max,
     peer |-> transmute_option_ref(other.peer)]

ScanParameters_new(type_, options, interval, window, timeout, interval_coded, window_coded) ==
    [type_ |-> type_, options |-> options, interval |-> interval, window |-> window,
     timeout |-> timeout, interval_coded |-> interval_coded,
     window_coded |-> window_coded]

bt_le_scan_param_from_coded_swapped(other) ==
    [type_ |-> bits(other.type_),
     interval |-> other.interval,
     window |-> other.window,
     options |-> bits(other.options),
     timeout |-> other.timeout,
     window_coded |-> other.interval_coded,
     interval_coded |-> other.window_coded]

bt_le_scan_param_from(other) ==
    [type_ |-> bits(other.type_),
     interval |-> other.interval,
     window |-> other.window,
     options |-> bits(other.options),
     timeout |-> other.timeout,
     window_coded |-> other.window_coded,
     interval_coded |-> other.interval_coded]

\* the parameters the conversions are applied to; the intervals include
\* interval_min > interval_max, the scan fields are pairwise different
PeerSamples == {NoPeer, SomePeer(1, <<1, 2, 3, 4, 5, 6>>)}
AdvParamSamples ==
    {AdvertisementParameters_new(id, sid, skip, Bitflags(o), imin, imax, peer) :
        id \in {0, 1}, sid \in {0, 15}, skip \in {0, 255}, o \in {0, 1, 9},
        imin \in {32, 160, 16384}, imax \in {32, 160, 16384}, peer \in PeerSamples}
ScanParamSamples ==
    {ScanParameters_new(Bitflags(t), Bitflags(o), i, w, to, ic, wc) :
        t \in {0, 1}, o \in {0, 5}, i \in {16, 96}, w \in {17, 48},
        to \in {0, 100}, ic \in {0, 7}, wc \in {0, 9}}

NoParams == [kind |-> "none"]

LeInit ==
    /\ le_op = "none"
    /\ le_in = NoParams
    /\ le_out = NoParams

\* let raw : bt_le_adv_param = (&parameters).into()
AdvParamInto(parameters) ==
    /\ le_op' = "adv"
    /\ le_in' = parameters
    /\ le_out' = bt_le_adv_param_from(parameters)

\* let raw : bt_le_scan_param = (&parameters).into()
ScanParamInto(parameters) ==
    /\ le_op' = "scan"
    /\ le_in' = parameters
    /\ le_out' = bt_le_scan_param_from(parameters)

LeAdvParamInto ==
    /\ le_op = "none"
    /\ \E parameters \in AdvParamSamples :
           /\ AdvParamInto(parameters)
           /\ UNCHANGED <<api_vars, uuid_vars, err_vars, data_vars, host_vars, gatt_vars,
                          adv_vars, read_vars, sensor_vars, thread_vars>>
LeScanParamInto ==
    /\ le_op = "none"
    /\ \E parameters \in ScanParamSamples :
           /\ ScanParamInto(parameters)
           /\ UNCHANGED <<api_vars, uuid_vars, err_vars, data_vars, host_vars, gatt_vars,
                          adv_vars, read_vars, sensor_vars, thread_vars>>

NextLe == LeAdvParamInto \/ LeScanParamInto

(***************************************************************************)
(* bluetooth/gatt.rs : the built-in read handlers                          *)
(***************************************************************************)
\* the arguments of a read handler: the connection and the attribute by
\* their addresses, the buffer by its address, len and offset as u16
ReadArgs(connection, attribute, buf, len, offset) ==
    [connection |-> connection, attribute |-> attribute, buf |-> buf,
     len |-> len, offset |-> offset]

\* one invocation of a host routine
ReadCall(c_api, args) == [routine |-> c_api, args |-> args]

\* A plausible slip in the macro body: len and offset change places
attribute_read_len_offset_swapped(c_api, connection, attribute, buf, len, offset, host_ret) ==
    [calls |-> <<ReadCall(c_api, ReadArgs(connection, attribute, buf, offset, len))>>,
     ret |-> host_ret]

\* the body attribute_read! expands to: transmute(connection) and
\* transmute(attribute) keep the address, `buf as *mut c_void` keeps the
\* address, len and offset are passed on, and the value of the call is the
\* value of the function
attribute_read(c_api, connection, attribute, buf, len, offset, host_ret) ==
    [calls |-> <<ReadCall(c_api, ReadArgs(connection, attribute, buf, len, offset))>>,
     ret |-> host_ret]

attribute_read_service(connection, attribute, buf, len, offset, host_ret) ==
    attribute_read("bt_gatt_attr_read_service", connection, attribute, buf, len, offset, host_ret)

attribute_read_characteristic(connection, attribute, buf, len, offset, host_ret) ==
    attribute_read("bt_gatt_attr_read_chrc", connection, attribute, buf, len, offset, host_ret)

\* addresses, lengths and offsets the host calls a handler with; the results
\* of the host routine: negative errors, 0 and byte counts
ReadArgSamples ==
    {ReadArgs(c, a, b, l, o) :
        c \in {4096, 4160}, a \in {8192, 8224}, b \in {12288, 12289},
        l \in {0, 5, 20, 65535}, o \in {0, 20, 65535}}
ReadRetSamples == {0 - 128, 0 - 13, 0 - 7, 0 - 1, 0, 1, 20, 512}

NoReadArgs == ReadArgs(0, 0, 0, 0, 0)

ReadInit ==
    /\ read_op = "none"
    /\ read_args = NoReadArgs
    /\ read_calls = <<>>
    /\ read_host_ret = 0
    /\ read_ret = 0

\* the host invokes a built-in handler; r is what the handler did
ReadHandlerCall(op, args, host_ret, r) ==
    /\ read_op' = op
    /\ read_args' = args
    /\ read_calls' = r.calls
    /\ read_host_ret' = host_ret
    /\ read_ret' = r.ret

ReadService ==
    /\ read_op = "none"
    /\ \E args \in ReadArgSamples, host_ret \in ReadRetSamples :
           /\ ReadHandlerCall("attribute_read_service", args, host_ret,
                  attribute_read_service(args.connection, args.attribute, args.buf,
                                         args.len, args.offset, host_ret))
           /\ UNCHANGED <<api_vars, uuid_vars, err_vars, data_vars, host_vars, gatt_vars,
                          le_vars, adv_vars, sensor_vars, thread_vars>>
ReadCharacteristic ==
    /\ read_op = "none"
    /\ \E args \in ReadArgSamples, host_ret \in ReadRetSamples :
           /\ ReadHandlerCall("attribute_read_characteristic", args, host_ret,
                  attribute_read_characteristic(args.connection, args.attribute, args.buf,
                                                args.len, args.offset, host_ret))
           /\ UNCHANGED <<api_vars, uuid_vars, err_vars, data_vars, host_vars, gatt_vars,
                          le_vars, adv_vars, sensor_vars, thread_vars>>

NextRead == ReadService \/ ReadCharacteristic

(***************************************************************************)
(* sensor.rs : trigger_set                                                 *)
(***************************************************************************)
\* sensor.rs : CONTEXT.name()
SENSOR_CONTEXT == "sensor wrapper"

\* a device: its api pointer is null or points to a sensor_driver_api, whose
\* trigger_set entry is None or a driver function
NullApi == [null |-> TRUE, trigger_set |-> "None"]
DriverApi(trigger_set_entry) == [null |-> FALSE, trigger_set |-> trigger_set_entry]
Device(addr, api) == [addr |-> addr, api |-> api]

\* one invocation of a driver function
DriverCall(entry, dev) == [entry |-> entry, device |-> dev]

\* A plausible slip in trigger_set: the entry is called without the checks,
\* as the inline function of the host does
trigger_set_unchecked(device, status, overflow_checks) ==
    [calls |-> <<DriverCall(device.api.trigger_set, device.addr)>>,
     result |-> IF status = 0 THEN ResultOk
                ELSE LET e == ZephyrError_from_errno_with_context(status, SENSOR_CONTEXT,
                                                                 overflow_checks) IN
                     IF e.errno = AbsOverflowPanic THEN ResultPanic ELSE ResultErr(e)]

\* sensor::trigger_set(device, sensor_trigger, f), the driver returning `status`
trigger_set(device, status, overflow_checks) ==
    IF ~device.api.null
    THEN IF device.api.trigger_set # "None"
         THEN [calls |-> <<DriverCall(device.api.trigger_set, device.addr)>>,
               result |-> IF status = 0 THEN ResultOk
                          ELSE LET e == ZephyrError_from_errno_with_context(
                                            status, SENSOR_CONTEXT, overflow_checks) IN
                               IF e.errno = AbsOverflowPanic THEN ResultPanic
                               ELSE ResultErr(e)]
         ELSE [calls |-> <<>>,
               result |-> ResultErr(ZephyrError_new_with_context(NotImplemented,
                                                                 SENSOR_CONTEXT))]
    ELSE [calls |-> <<>>,
          result |-> ResultErr(ZephyrError_new_with_context(NotImplemented, SENSOR_CONTEXT))]

\* a device without driver api, one whose api lacks trigger_set, and two
\* devices with a driver function
DeviceSamples ==
    {Device(256, NullApi), Device(512, DriverApi("None")),
     Device(768, DriverApi("drv_trigger_set")), Device(1024, DriverApi("drv_trigger_set"))}

SensorInit ==
    /\ sensor_op = "none"
    /\ sensor_device = Device(0, NullApi)
    /\ sensor_calls = <<>>
    /\ sensor_status = 0
    /\ sensor_result = NoResult

\* trigger_set was called and returned (or panicked) with r
TriggerSetCall(device, status, r) ==
    /\ sensor_op' = "trigger_set"
    /\ sensor_device' = device
    /\ sensor_calls' = r.calls
    /\ sensor_status' = IF r.calls = <<>> THEN 0 ELSE status
    /\ sensor_result' = r.result

SensorTriggerSet ==
    /\ sensor_op = "none"
    /\ \E device \in DeviceSamples, status \in ErrnoSamples :
           \E oc \in OverflowChecks(status) :
               /\ TriggerSetCall(device, status, trigger_set(device, status, oc))
               /\ UNCHANGED <<api_vars, uuid_vars, err_vars, data_vars, host_vars, gatt_vars,
                              le_vars, adv_vars, read_vars, thread_vars>>

NextSensor == SensorTriggerSet

(***************************************************************************)
(* bluetooth/api.rs : Api::enable called by two threads. API_CONTAINER is  *)
(* a `static mut` without synchronisation: replace(&mut self.api, None) is *)
(* a load of the old value followed by a store of None.                    *)
(***************************************************************************)
Threads == {1, 2}

\* statuses of bt_enable: 0, -EIO, -EALREADY, -EINVAL, -ENOMEM, -EPERM,
\* ENOSYS and i32::MIN
ThreadStatusSamples == {0, 0 - 5, 0 - 120, 0 - 22, 0 - 12, 0 - 1, 88, I32Min}

ThreadInit ==
    /\ thr_pc = [t \in Threads |-> "start"]
    /\ thr_api = [t \in Threads |-> "None"]
    /\ thr_result = [t \in Threads |-> NoResult]

\* replace, first half: the old value of API_CONTAINER.api is read
take_api_load(t) ==
    /\ thr_pc[t] = "start"
    /\ enable_calls' = enable_calls + 1
    /\ thr_api' = [thr_api EXCEPT ![t] = API_CONTAINER]
    /\ thr_pc' = [thr_pc EXCEPT ![t] = "loaded"]
    /\ UNCHANGED <<API_CONTAINER, api_handles, bt_enable_calls, enable_result, thr_result>>

\* replace, second half: None is written to API_CONTAINER.api
take_api_store(t) ==
    /\ thr_pc[t] = "loaded"
    /\ API_CONTAINER' = "None"
    /\ thr_pc' = [thr_pc EXCEPT ![t] = "stored"]
    /\ UNCHANGED <<api_handles, enable_calls, bt_enable_calls, enable_result, thr_api,
                   thr_result>>

\* api.unwrap(): panics if the thread read None
take_api_unwrap(t) ==
    /\ thr_pc[t] = "stored"
    /\ IF thr_api[t] = "None"
       THEN /\ thr_pc' = [thr_pc EXCEPT ![t] = "done"]
            /\ thr_result' = [thr_result EXCEPT ![t] = ResultPanic]
       ELSE /\ thr_pc' = [thr_pc EXCEPT ![t] = "taken"]
            /\ UNCHANGED thr_result
    /\ UNCHANGED <<API_CONTAINER, api_handles, enable_calls, bt_enable_calls, enable_result,
                   thr_api>>

\* enable(None)?; Ok(api) : the host's bt_enable returns `status`
enable_and_return(t, status, overflow_checks) ==
    /\ thr_pc[t] = "taken"
    /\ bt_enable_calls' = bt_enable_calls + 1
    /\ thr_pc' = [thr_pc EXCEPT ![t] = "done"]
    /\ IF status # 0
       THEN /\ thr_result' = [thr_result EXCEPT ![t] = Err_from_errno(status, overflow_checks)]
            /\ UNCHANGED api_handles
       ELSE /\ thr_result' = [thr_result EXCEPT ![t] = ResultOk]
            /\ api_handles' = api_handles + 1
    /\ UNCHANGED <<API_CONTAINER, enable_calls, enable_result, thr_api>>

ThreadLoad ==
    \E t \in Threads :
        /\ take_api_load(t)
        /\ UNCHANGED <<uuid_vars, err_vars, data_vars, host_vars, gatt_vars,
                       le_vars, adv_vars, read_vars, sensor_vars>>
ThreadStore ==
    \E t \in Threads :
        /\ take_api_store(t)
        /\ UNCHANGED <<uuid_vars, err_vars, data_vars, host_vars, gatt_vars,
                       le_vars, adv_vars, read_vars, sensor_vars>>
ThreadUnwrap ==
    \E t \in Threads :
        /\ take_api_unwrap(t)
        /\ UNCHANGED <<uuid_vars, err_vars, data_vars, host_vars, gatt_vars,
                       le_vars, adv_vars, read_vars, sensor_vars>>
ThreadEnable ==
    \E t \in Threads :
        /\ thr_pc[t] = "taken"
        /\ \E status \in ThreadStatusSamples : \E oc \in OverflowChecks(status) :
               /\ enable_and_return(t, status, oc)
               /\ UNCHANGED <<uuid_vars, err_vars, data_vars, host_vars, gatt_vars,
                              le_vars, adv_vars, read_vars, sensor_vars>>

NextThreads == ThreadLoad \/ ThreadStore \/ ThreadUnwrap \/ ThreadEnable

(***************************************************************************)
(* Specifications                                                          *)
(***************************************************************************)
Init ==
    /\ ApiInit /\ UuidInit /\ ErrInit /\ DataInit /\ HostInit /\ GattInit
    /\ LeInit /\ ReadInit /\ SensorInit /\ ThreadInit

\* the Api capability and the host calls
Spec == Init /\ [][NextApi]_vars
\* the UUID conversions and comparison
SpecUuid == Init /\ [][NextUuid]_vars
\* the error classification
SpecErr == Init /\ [][NextErr]_vars
\* the advertising record codec
SpecData == Init /\ [][NextData]_vars
\* the wrappers of the host calls, a GATT service and the host's accesses
SpecHost == Init /\ [][NextHost]_vars
\* the conversions of the advertising and scan parameters
SpecLe == Init /\ [][NextLe]_vars
\* the built-in read handlers of GATT attributes
SpecRead == Init /\ [][NextRead]_vars
\* the trigger registration of a sensor
SpecSensor == Init /\ [][NextSensor]_vars
\* Api::enable called by two threads at once
SpecThreads == Init /\ [][NextThreads]_vars

(***************************************************************************)
(* Properties                                                              *)
(***************************************************************************)

\* C1: over any sequence of Api::enable calls at most one Api handle has been
\* returned, and every call after the first fails (the unwrap of the emptied
\* placeholder panics) instead of yielding a second handle.
C1_AtMostOneApiHandle ==
    /\ api_handles <= 1
    /\ enable_calls >= 2 => enable_result.tag = "panic"

\* a handle was returned and a later Api::enable call has failed
C1_SecondEnableFailed ==
    /\ enable_calls >= 2
    /\ api_handles = 1
    /\ enable_result.tag = "panic"

\* C2: for every 16-bit n, BtUuid16::from(BtUuid::from(n)) has the value n.
C2_RoundTrip16 ==
    uuid_op = "u16_to_16" =>
        /\ uuid_short.type_ = BT_UUID_TYPE_16
        /\ uuid_short.val = uuid_n

\* C3: for every 32-bit n, BtUuid32::from(BtUuid::from(n)) has the value n.
C3_RoundTrip32 ==
    uuid_op = "u32_to_32" =>
        /\ uuid_short.type_ = BT_UUID_TYPE_32
        /\ uuid_short.val = uuid_n

\* the decoder was run on the encoding of bt_data_in and has ended
DecodedEncoded == bt_data_in # NoData /\ parse_state \in {"decoded", "panic", "fault"}

\* decoding the encoding of bt_data_in gave exactly [bt_data_in]
RoundTripExact == parse_state = "decoded" /\ parser_data = <<bt_data_in>>

\* C4: decoding the encoding of UuidAll(L) or UuidIncomplete(L) yields exactly
\* one record of the same variant holding the UUIDs of L, byte for byte and in
\* the same order.
C4_UuidListRoundTrip ==
    (DecodedEncoded /\ bt_data_in.tag \in {"UuidAll", "UuidIncomplete"}) => RoundTripExact

\* C5: decoding the encoding of CompleteName(s) yields exactly
\* [CompleteName(s)], and that of ShortenedName(s) exactly [ShortenedName(s)].
C5_NameRoundTrip ==
    (DecodedEncoded /\ bt_data_in.tag \in {"CompleteName", "ShortenedName"}) => RoundTripExact

\* C6: for every byte b, decoding the encoding of Flags(b) yields exactly the
\* one-element sequence [Flags(b)].
C6_FlagsRoundTrip ==
    (DecodedEncoded /\ bt_data_in.tag = "Flags") => RoundTripExact

\* Flags(0) was encoded and decoded back
C6_FlagsZeroDecoded ==
    /\ bt_data_in = Flags(0)
    /\ z_bt_data = [type_ |-> BT_DATA_FLAGS, data_len |-> 1, data |-> <<0>>]
    /\ parse_state = "decoded"
    /\ parser_data = <<Flags(0)>>

\* the type codes the decoder is meant to know: Flags, the 16/32/128-bit UUID
\* lists and the two local names
KnownTypes == 1..9

\* the host parser has delivered the record z_bt_data and the callback returned
Delivered ==
    /\ bt_data_in = NoData
    /\ parse_state \in {"parsing", "done"}
    /\ Len(parser_data) > 0

\* C7: a delivered record whose type byte is not a known code is decoded to an
\* Unknown record that carries the type byte and the payload verbatim, and
\* encoding that record reproduces the type byte and the payload.
C7_UnknownKeepsPayload ==
    (Delivered /\ z_bt_data.type_ \notin KnownTypes) =>
        LET rec == parser_data[Len(parser_data)] IN
        /\ rec.tag = "UnknownType"
        /\ raw(rec) = [type_ |-> z_bt_data.type_, data |-> slice_from_raw_parts(z_bt_data)]

\* C8: decoding never fails hard: whatever record the host parser delivers,
\* the callback returns without a panic; and a delivered UUID-list payload of
\* N x 16 bytes is decoded to exactly N UUIDs.
C8_DecodingNeverPanics ==
    /\ parse_state # "panic"
    /\ (Delivered /\ z_bt_data.type_ \in {6, BT_DATA_UUID128_ALL}
            /\ z_bt_data.data_len % 16 = 0) =>
           Len(parser_data[Len(parser_data)].uuids) = z_bt_data.data_len \div 16

\* the classification the claim gives a status code with magnitude a
ClassOfAbs(a) ==
    CASE a = 1   -> Permission
      [] a = 88  -> NotImplemented
      [] a = 128 -> NotConnected
      [] OTHER   -> Other(a)

\* C9: the classification of a status code c depends only on |c|: 1 gives
\* Permission, 88 NotImplemented, 128 NotConnected, anything else Other(|c|).
\* (Stated for the codes whose magnitude is an i32.)
C9_ClassifiedByMagnitude ==
    (zephyr_error # NoError /\ errno_in # I32Min) =>
        zephyr_error.errno = ClassOfAbs(IF errno_in < 0 THEN 0 - errno_in ELSE errno_in)

\* C10: compare_uuids(a, b) is true exactly when a and b have the same type
\* tag (16, 32 or 128 bit) and equal value fields.
C10_CompareIsWidthAndValue ==
    uuid_op = "compare" =>
        (uuid_cmp.result <=>
            (/\ uuid_cmp.one.type_ = uuid_cmp.other.type_
             /\ uuid_cmp.one.val = uuid_cmp.other.val))

\* 16-bit 0x1234 was compared with 32-bit 0x00001234 and found unequal
C10_SameNumberOtherWidth ==
    /\ uuid_op = "compare"
    /\ uuid_cmp.one = uuid16(4660)
    /\ uuid_cmp.other = uuid32(U32(0, 4660))
    /\ uuid_cmp.result = FALSE

\* the 16 bytes of the base UUID with its leading numeric field replaced by the
\* 32-bit n, most significant byte first
BaseWithLeadingField(n) ==
    [i \in 1..16 |-> IF i <= 4 THEN U32BeBytes(n)[i] ELSE BT_BASE_UUID[i]]

\* C11: BtUuid::from(n: u16) equals BtUuid::from(n as u32); for every 32-bit n
\* the expansion is the base UUID 00000000-0000-1000-8000-00805F9B34FB with
\* only its leading field replaced by n in big-endian order (bytes 4..15 are
\* those of BT_BASE_UUID); BtUuid::service_uuid_32(n) gives the same 16 bytes.
C11_ExpansionLayout ==
    /\ uuid_op = "from_u16" =>
           /\ bt_uuid = BtUuid_from_u32(U32_from_u16(uuid_n))
           /\ bt_uuid = BaseWithLeadingField(U32_from_u16(uuid_n))
    /\ uuid_op = "from_u32" =>
           /\ bt_uuid = BaseWithLeadingField(uuid_n)
           /\ bt_uuid = BtUuid_service_uuid_32(uuid_n)
    /\ uuid_op = "service_uuid_32" =>
           /\ bt_uuid = BaseWithLeadingField(uuid_n)
           /\ bt_uuid = BtUuid_from_u32(uuid_n)

\* 0x12345678 was expanded to 12345678-0000-1000-8000-00805F9B34FB
C11_Expanded12345678 ==
    /\ uuid_op = "from_u32"
    /\ uuid_n = U32(4660, 22136)
    /\ bt_uuid = <<18, 52, 86, 120, 0, 0, 16, 0, 128, 0, 0, 128, 95, 155, 52, 251>>

Expanded16 == {BtUuid_from_u16(n) : n \in U16Samples}

\* the two bytes of the 16-bit UUID that u is the expansion of, low byte first
Short16Bytes(u) == <<u[4], u[3]>>

C14_ListPayloadReversed ==
    (parse_state = "raw" /\ bt_data_in.tag \in {"UuidAll", "UuidIncomplete"}) =>
        \A k \in 1..Len(bt_data_in.uuids) : \A u \in StdUuidSamples :
            bt_data_in.uuids[k] = BtUuid_from_uuid(u) =>
                \A i \in 0..15 : raw_bt_data.data[16 * (k - 1) + i + 1] = u[(15 - i) + 1]

\* the list [from_uuid(00010203-0405-0607-0809-0a0b0c0d0e0f)] was encoded to the
\* payload 0f 0e .. 01 00
C14_CountingUuidEncoded ==
    /\ parse_state = "raw"
    /\ bt_data_in = UuidAll(<<BtUuid_from_uuid([i \in 1..16 |-> i - 1])>>)
    /\ raw_bt_data = [type_ |-> BT_DATA_UUID128_ALL, data |-> [i \in 1..16 |-> 16 - i]]

\* the host entry point each wrapper is the wrapper of
EntryPointOf(op) ==
    CASE op = "register_service"  -> "bt_gatt_service_register"
      [] op = "enable"            -> "bt_enable"
      [] op = "set_name"          -> "bt_set_name"
      [] op = "start_advertising" -> "bt_le_adv_start"
      [] op = "start_scanning"    -> "bt_le_scan_start"
      [] op = "notify"            -> "bt_gatt_notify_cb"
      [] op = "discover"          -> "bt_gatt_discover"

\* the name handed to set_name holds a NUL
NameHasNul == \E i \in 1..Len(call_arg) : call_arg[i] = 0

\* C15: each of register_service, enable, set_name (with a valid name),
\* start_advertising, start_scanning, notify and discover invokes its host
\* entry point exactly once per call, returns Ok exactly when the host status
\* is 0, and otherwise returns an error whose kind is the classification of
\* that status (1 Permission, 88 NotImplemented, 128 NotConnected, else
\* Other, by magnitude) and whose context is bluetooth.
C15_HostCalledOncePerCall ==
    (host_op # "none" /\ ~(host_op = "set_name" /\ NameHasNul)) =>
        /\ Len(host_calls) = 1
        /\ host_calls[1].entry = EntryPointOf(host_op)
        /\ call_result.tag = "Ok" <=> host_status = 0
        /\ host_status # 0 =>
               /\ call_result.tag = "Err"
               /\ call_result.error.context = "bluetooth"
               /\ host_status # I32Min =>
                      call_result.error.errno =
                          ClassOfAbs(IF host_status < 0 THEN 0 - host_status ELSE host_status)

\* C16: set_name called with a name that holds a NUL byte returns an error of
\* kind NotImplemented with the bluetooth context, does not panic, and does
\* not invoke the host's bt_set_name.
C16_NulNameRejected ==
    (host_op = "set_name" /\ NameHasNul) =>
        /\ call_result.tag = "Err"
        /\ call_result.error.errno = NotImplemented
        /\ call_result.error.context = "bluetooth"
        /\ host_calls = <<>>

\* set_name("a\0b") returned an error and the host was not called
C16_EmbeddedNulRejected ==
    /\ host_op = "set_name"
    /\ call_arg = <<97, 0, 98>>
    /\ call_result.tag = "Err"
    /\ host_calls = <<>>

\* C17: registration is one-shot per service value: over any sequence of
\* register_service calls the same GattService is handed to the host for
\* registration at most once.
C17_RegisteredAtMostOnce == Len(host_db) <= 1

\* the declared attributes all have handle 0 (auto-assign)
AllAutoAssign == \A i \in 1..Len(gatt_decl) : gatt_decl[i].handle = 0

\* C18: GattService::new hands the host the caller's attributes in declaration
\* order with attr_count equal to the slice length, and without validating
\* them (whatever handles were declared are taken as they are); for a service
\* whose attributes all have handle 0, after a successful register_service
\* the attributes' handles are strictly increasing in declaration order.
C18_DeclarationOrderAndHandles ==
    gatt_decl # <<>> =>
        /\ gatt_service.attr_count = Len(gatt_decl)
        /\ Len(gatt_service.attrs) = Len(gatt_decl)
        /\ \A i \in 1..Len(gatt_decl) :
               /\ gatt_service.attrs[i].uuid = gatt_decl[i].uuid
               /\ gatt_service.attrs[i].perm = gatt_decl[i].perm
               /\ register_calls = 0 => gatt_service.attrs[i].handle = gatt_decl[i].handle
        /\ \A k \in 1..Len(host_db) :
               /\ host_db[k].attr_count = Len(gatt_decl)
               /\ \A i \in 1..Len(gatt_decl) : host_db[k].attrs[i].uuid = gatt_decl[i].uuid
        /\ (Registered /\ AllAutoAssign) =>
               /\ gatt_service.attrs[1].handle > 0
               /\ \A i \in 1..(Len(gatt_decl) - 1) :
                      gatt_service.attrs[i].handle < gatt_service.attrs[i + 1].handle

\* a service of three attributes with handle 0 was registered and its
\* attributes now have the handles 1, 2, 3
C18_ThreeHandlesAssigned ==
    /\ Registered
    /\ Len(gatt_decl) = 3
    /\ AllAutoAssign
    /\ [i \in 1..3 |-> gatt_service.attrs[i].handle] = <<1, 2, 3>>

\* the callback declared for the access `kind` of the i-th attribute
Declared(i, kind) == IF kind = "read" THEN gatt_decl[i].read ELSE gatt_decl[i].write

\* the host-visible slot for the access `kind` of the i-th attribute
Slot(i, kind) ==
    IF kind = "read" THEN gatt_service.attrs[i].read ELSE gatt_service.attrs[i].write

Scanning == bt_data_in = NoData /\ parse_state \in {"parsing", "done"}

C21_FieldForFieldCopy ==
    /\ le_op = "adv" =>
        /\ le_out.id = le_in.id
        /\ le_out.sid = le_in.sid
        /\ le_out.secondary_max_skip = le_in.secondary_max_skip
        /\ le_out.options = le_in.options.bits
        /\ le_out.interval_min = le_in.interval_min
        /\ le_out.interval_max = le_in.interval_max
        /\ le_out.peer.null = ~le_in.peer.some
        /\ le_in.peer.some => le_out.peer.pointee = le_in.peer
    /\ le_op = "scan" =>
        /\ le_out.type_ = le_in.type_.bits
        /\ le_out.options = le_in.options.bits
        /\ le_out.interval = le_in.interval
        /\ le_out.window = le_in.window
        /\ le_out.timeout = le_in.timeout
        /\ le_out.interval_coded = le_in.interval_coded
        /\ le_out.window_coded = le_in.window_coded

\* parameters with interval_min > interval_max and a peer were converted
C21_UnorderedIntervalsConverted ==
    /\ le_op = "adv"
    /\ le_in.interval_min = 16384
    /\ le_in.interval_max = 32
    /\ le_in.peer.some
    /\ le_out.interval_min = 16384
    /\ le_out.interval_max = 32
    /\ ~le_out.peer.null


\* C22: for every 32-bit signed status code, positive, negative or the
\* minimum -2^31, the error number carried by the error the wrappers
\* construct from it is never negative.
C22_ErrorNumberNeverNegative ==
    (zephyr_error # NoError /\ zephyr_error.errno.kind # "panic") =>
        zephyr_error.errno.code >= 0

\* the array the host was handed holds, record for record and in order,
\* the type and payload of the list's records; null and empty for no list
EncodesList(null, array, len, list) ==
    /\ null = ~list.some
    /\ len = Len(list.list)
    /\ Len(array) = len
    /\ \A i \in 1..len :
           /\ array[i].type_ = type_number(list.list[i])
           /\ array[i].data = data(list.list[i])

\* bytes the records of a list take in an advertisement
RECURSIVE AdvBytes(_)
AdvBytes(l) == IF l = <<>> THEN 0 ELSE 2 + Len(data(Head(l))) + AdvBytes(Tail(l))

\* C23: start_advertising hands the host, separately for the advertising
\* data and the scan response data, exactly one encoded record per input
\* record, in input order with nothing in between and a count equal to the
\* input length; an absent list is a null pointer with length 0, and the host
\* is called whatever the total length is.
C23_OneRecordPerInputRecord ==
    host_op = "start_advertising" =>
        /\ Len(host_calls) = 1
        /\ host_calls[1].entry = "bt_le_adv_start"
        /\ EncodesList(host_calls[1].ad_null, host_calls[1].ad, host_calls[1].ad_len,
                       adv_in.advertisement_data)
        /\ EncodesList(host_calls[1].sd_null, host_calls[1].sd, host_calls[1].sd_len,
                       adv_in.scan_response_data)

\* three records of more than 31 bytes in all were handed over as advertising
\* data, with no scan response data
C23_LongAdvertisementHandedOver ==
    /\ host_op = "start_advertising"
    /\ Len(adv_in.advertisement_data.list) = 3
    /\ AdvBytes(adv_in.advertisement_data.list) > 31
    /\ ~adv_in.scan_response_data.some
    /\ Len(host_calls) = 1
    /\ host_calls[1].ad_len = 3
    /\ host_calls[1].sd_null
    /\ host_calls[1].sd_len = 0

\* the host routine a built-in handler stands for
RoutineOf(op) ==
    IF op = "attribute_read_service" THEN "bt_gatt_attr_read_service"
    ELSE "bt_gatt_attr_read_chrc"

\* C24: attribute_read_service and attribute_read_characteristic each invoke
\* the host's corresponding built-in routine exactly once with the
\* connection, attribute, buffer, len and offset they received, and return
\* the routine's result unchanged, negative error returns included.
C24_BuiltinReadDelegates ==
    read_op # "none" =>
        /\ Len(read_calls) = 1
        /\ read_calls[1].routine = RoutineOf(read_op)
        /\ read_calls[1].args = read_args
        /\ read_ret = read_host_ret

\* the characteristic handler passed on a negative result of the host routine
C24_NegativeResultForwarded ==
    /\ read_op = "attribute_read_characteristic"
    /\ read_args.len = 20
    /\ read_args.offset = 65535
    /\ read_host_ret = 0 - 7
    /\ read_ret = 0 - 7
    /\ Len(read_calls) = 1

\* C25: sensor::trigger_set checks that the driver API is present before
\* calling it: with no driver API, or an API without trigger_set entry, it
\* returns an error of kind NotImplemented with the sensor context and
\* invokes no driver function; otherwise it invokes the driver's trigger_set
\* exactly once and returns Ok exactly when that returns 0.
C25_TriggerSetChecksDriverApi ==
    sensor_op = "trigger_set" =>
        IF sensor_device.api.null \/ sensor_device.api.trigger_set = "None"
        THEN /\ sensor_calls = <<>>
             /\ sensor_result.tag = "Err"
             /\ sensor_result.error.errno = NotImplemented
             /\ sensor_result.error.context = SENSOR_CONTEXT
        ELSE /\ Len(sensor_calls) = 1
             /\ sensor_calls[1].entry = sensor_device.api.trigger_set
             /\ sensor_calls[1].device = sensor_device.addr
             /\ (sensor_result.tag = "Ok") <=> (sensor_status = 0)

\* trigger_set was called on a device whose driver API lacks the entry
C25_MissingEntryRefused ==
    /\ sensor_op = "trigger_set"
    /\ ~sensor_device.api.null
    /\ sensor_device.api.trigger_set = "None"
    /\ sensor_calls = <<>>
    /\ sensor_result.tag = "Err"

\* C26: if the host's enable entry point returns a nonzero status during
\* Api::enable, the call returns an error and no Api handle, yet the
\* capability has been taken from the placeholder: every later Api::enable
\* fails on the empty placeholder, so enablement never succeeds after one
\* failed attempt. (No handle after a call means that the first call, the
\* only one to reach the host, was answered with a nonzero status.)
C26_FailedEnableIsFinal ==
    (enable_calls >= 1 /\ api_handles = 0) =>
        /\ API_CONTAINER = "None"
        /\ bt_enable_calls = 1
        /\ enable_calls = 1 =>
               /\ enable_result.tag = "Err"
               /\ enable_result.error.errno.kind \in {"Permission", "NotImplemented",
                                                      "NotConnected", "Other"}
        /\ enable_calls >= 2 => enable_result.tag = "panic"

\* C27: Api::enable takes the capability from the placeholder before calling
\* the host, so a second Api::enable fails before reaching the host: over any
\* sequence of Api::enable calls the host's enable entry point is invoked at
\* most once.
C27_HostEnabledAtMostOnce ==
    /\ bt_enable_calls <= 1
    /\ enable_calls >= 1 => (bt_enable_calls = 1 /\ API_CONTAINER = "None")

\* Api::enable was called again after a failed attempt, and the host was not
\* reached a second time
C27_SecondCallStoppedBeforeHost ==
    /\ enable_calls >= 2
    /\ api_handles = 0
    /\ bt_enable_calls = 1
    /\ enable_result.tag = "panic"

\* C28: when two threads call Api::enable concurrently, the read and the
\* clearing of the unsynchronised placeholder interleaved load by load and
\* store by store, at most one of the two calls obtains an Api handle.
C28_AtMostOneHandleConcurrently ==
    Cardinality({t \in Threads : thr_result[t].tag = "Ok"}) <= 1

\* C29: for every encoded record the 8-bit data_len handed to the host
\* equals the byte length of the payload the data pointer refers to, for
\* every payload length, names and UUID lists of more than 255 bytes
\* included (no wrap-around modulo 256).
C29_DataLenIsPayloadLength ==
    parse_state = "sys_ref" =>
        /\ z_bt_data.data = data(bt_data_in)
        /\ z_bt_data.data_len = Len(data(bt_data_in))

====
